---- MODULE Spec2Model ----
(***************************************************************************)
(* update-brave (src/main.rs): probe the installed version, resolve the    *)
(* latest release from the catalog, and when they differ download the      *)
(* archive, extract it into <target>.new, stamp the version file, remove   *)
(* <target> and rename <target>.new into its place.                        *)
(*                                                                         *)
(* Strings are sequences of one-character strings.  Option<T> is a         *)
(* sequence of length 0 (None) or 1 (Some).  A path is a sequence of       *)
(* components below the filesystem root <<>>; the filesystem is a function *)
(* from the paths that exist to their nodes.                               *)
(***************************************************************************)
EXTENDS Integers, Sequences, FiniteSets, TLC

VARIABLES fs, live0, prev_swapped, page, suffix, pc, failedAt, fault, probe,
          installed_version, latest_release, archive, idx, net, exit

vars == <<fs, live0, prev_swapped, page, suffix, pc, failedAt, fault, probe,
          installed_version, latest_release, archive, idx, net, exit>>

(* ---------------------------------------------------------------- bounds *)
MaxReleases == 3
MaxEntries == 2

(* ------------------------------------------------------- Option, strings *)
None == <<>>
Some(x) == <<x>>

Whitespace == {" ", "\n"}

starts_with(s, prefix) ==
  /\ Len(prefix) <= Len(s)
  /\ SubSeq(s, 1, Len(prefix)) = prefix

ends_with(s, sfx) ==
  /\ Len(sfx) <= Len(s)
  /\ SubSeq(s, Len(s) - Len(sfx) + 1, Len(s)) = sfx

RECURSIVE trim_start(_)
trim_start(s) ==
  IF s # <<>> /\ Head(s) \in Whitespace THEN trim_start(Tail(s)) ELSE s

RECURSIVE trim_end(_)
trim_end(s) ==
  IF s # <<>> /\ s[Len(s)] \in Whitespace
    THEN trim_end(SubSeq(s, 1, Len(s) - 1))
    ELSE s

trim_mut(s) == s

trim(s) == trim_end(trim_start(s))

ReleasePrefix == <<"R", "e", "l", "e", "a", "s", "e">>

(* ------------------------------------------------------- release catalog *)
NameRv2 == ReleasePrefix \o <<" ", "v", "2">>
NameRv1 == ReleasePrefix \o <<" ", "v", "1">>
NameRv1Padded == NameRv1 \o <<" ">>
NameDv3 == <<"D", "r", "a", "f", "t", " ", "v", "3">>

Zip == <<".", "z", "i", "p">>
Tar == <<".", "t", "a", "r">>

\* An asset: its filename and its browser_download_url.
Asset(n, u) == [name |-> n, browser_download_url |-> u]
AssetBZip == Asset(<<"b">> \o Zip, "url_b_zip")
AssetCZip == Asset(<<"c">> \o Zip, "url_c_zip")
AssetBTar == Asset(<<"b">> \o Tar, "url_b_tar")

ReleaseNames == {None, Some(NameRv2), Some(NameRv1Padded), Some(NameDv3)}
Suffixes == {Zip, Tar}

SeqsUpTo(S, n) == UNION {[1..k -> S] : k \in 0..n}

AssetLists == {<<>>, <<AssetBTar>>, <<AssetBZip>>, <<AssetBTar, AssetBZip>>,
               <<AssetCZip, AssetBZip>>}

CatalogReleases ==
  {[name |-> n, assets |-> a] : n \in ReleaseNames, a \in AssetLists}

AllPages == SeqsUpTo(CatalogReleases, MaxReleases)

(* --------------------------------------------------- get_latest_release *)
Ok(v) == [ok |-> TRUE, val |-> v]
Err(e) == [ok |-> FALSE, err |-> e]

Release(n, u) == [name |-> n, url |-> u]

RECURSIVE find_asset(_, _, _, _)
find_asset(name, assets, sfx, j) ==
  IF j > Len(assets) THEN None
  ELSE IF ends_with(assets[j].name, sfx)
    THEN Some(Release(trim(name), assets[j].browser_download_url))
    ELSE find_asset(name, assets, sfx, j + 1)

RECURSIVE find_release(_, _, _)
find_release(pg, sfx, k) ==
  IF k > Len(pg) THEN Err("No Release Found")
  ELSE LET release == pg[k] IN
    IF release.name # None /\ starts_with(release.name[1], ReleasePrefix)
      THEN LET r == find_asset(release.name[1], release.assets, sfx, 1) IN
        IF r # None THEN Ok(r[1]) ELSE find_release(pg, sfx, k + 1)
      ELSE find_release(pg, sfx, k + 1)

find_first_release_mut(pg, sfx) ==
  IF \E k \in 1..Len(pg) : pg[k].name # None /\ pg[k].assets # <<>>
       /\ starts_with(pg[k].name[1], ReleasePrefix)
    THEN LET k == CHOOSE k \in 1..Len(pg) :
                    /\ pg[k].name # None /\ pg[k].assets # <<>>
                    /\ starts_with(pg[k].name[1], ReleasePrefix)
                    /\ \A m \in 1..(k - 1) :
                         ~(pg[m].name # None /\ pg[m].assets # <<>>
                           /\ starts_with(pg[m].name[1], ReleasePrefix))
         IN Ok(Release(trim(pg[k].name[1]), pg[k].assets[1].browser_download_url))
    ELSE Err("No Release Found")

get_latest_release(pg, sfx) == find_release(pg, sfx, 1)

(* ------------------------------------------------------------ filesystem *)
DirNode == [kind |-> "dir", data |-> <<>>, mode |-> None]
FileNode(d, m) == [kind |-> "file", data |-> d, mode |-> m]

Root == <<>>
Parent(p) == SubSeq(p, 1, Len(p) - 1)
IsPrefix(p, q) == Len(p) <= Len(q) /\ SubSeq(q, 1, Len(p)) = p

NodeExists(f, p) == p = Root \/ p \in DOMAIN f
NodeIsDir(f, p) == p = Root \/ (p \in DOMAIN f /\ f[p].kind = "dir")

\* Path resolution as the kernel does it: every component is looked up in a
\* directory that exists; ".." steps to the parent of the directory reached.
RECURSIVE Walk(_, _, _)
Walk(f, cur, rest) ==
  IF rest = <<>> THEN [err |-> "none", path |-> cur]
  ELSE IF ~NodeExists(f, cur) THEN [err |-> "NotFound", path |-> cur]
  ELSE IF ~NodeIsDir(f, cur) THEN [err |-> "NotADirectory", path |-> cur]
  ELSE Walk(f, IF Head(rest) = ".." THEN Parent(cur) ELSE Append(cur, Head(rest)),
            Tail(rest))

Lookup(f, p) == Walk(f, Root, p)

exists(f, p) == LET w == Lookup(f, p) IN w.err = "none" /\ NodeExists(f, w.path)
is_dir(f, p) == LET w == Lookup(f, p) IN w.err = "none" /\ NodeIsDir(f, w.path)

FsOk(f) == [ok |-> TRUE, fs |-> f, err |-> "none"]
FsErr(f, e) == [ok |-> FALSE, fs |-> f, err |-> e]

\* mkdir(2)
mkdir(f, p) ==
  LET w == Lookup(f, p) IN
    IF w.err # "none" THEN FsErr(f, w.err)
    ELSE IF NodeExists(f, w.path) THEN FsErr(f, "AlreadyExists")
    ELSE IF ~NodeExists(f, Parent(w.path)) THEN FsErr(f, "NotFound")
    ELSE IF ~NodeIsDir(f, Parent(w.path)) THEN FsErr(f, "NotADirectory")
    ELSE FsOk((w.path :> DirNode) @@ f)

\* std::fs::create_dir_all
RECURSIVE create_dir_all(_, _)
create_dir_all(f, p) ==
  IF p = <<>> THEN FsOk(f)
  ELSE LET r == mkdir(f, p) IN
    IF r.ok THEN r
    ELSE IF r.err = "NotFound"
      THEN LET pr == create_dir_all(f, Parent(p)) IN
        IF ~pr.ok THEN pr
        ELSE LET r2 == mkdir(pr.fs, p) IN
          IF r2.ok THEN r2
          ELSE IF is_dir(pr.fs, p) THEN FsOk(pr.fs)
          ELSE r2
    ELSE IF is_dir(f, p) THEN FsOk(f)
    ELSE r

\* File::create followed by writing `d`: open(O_CREAT | O_TRUNC), write.
\* An existing file keeps its mode.
write_file(f, p, d) ==
  LET w == Lookup(f, p) IN
    IF w.err # "none" THEN FsErr(f, w.err)
    ELSE IF w.path = Root THEN FsErr(f, "IsADirectory")
    ELSE IF ~NodeExists(f, Parent(w.path)) THEN FsErr(f, "NotFound")
    ELSE IF ~NodeIsDir(f, Parent(w.path)) THEN FsErr(f, "NotADirectory")
    ELSE IF w.path \in DOMAIN f
      THEN IF f[w.path].kind = "dir" THEN FsErr(f, "IsADirectory")
           ELSE FsOk([f EXCEPT ![w.path].data = d])
    ELSE FsOk((w.path :> FileNode(d, None)) @@ f)

\* std::fs::set_permissions
set_permissions(f, p, m) ==
  LET w == Lookup(f, p) IN
    IF w.err # "none" THEN FsErr(f, w.err)
    ELSE IF w.path \notin DOMAIN f THEN FsErr(f, "NotFound")
    ELSE FsOk([f EXCEPT ![w.path].mode = Some(m)])

\* std::fs::read_to_string
read_to_string(f, p) ==
  LET w == Lookup(f, p) IN
    IF w.err # "none" THEN Err(w.err)
    ELSE IF ~NodeExists(f, w.path) THEN Err("NotFound")
    ELSE IF NodeIsDir(f, w.path) THEN Err("IsADirectory")
    ELSE Ok(f[w.path].data)

\* std::fs::rename of a directory: the target is absent or an empty directory.
Below(f, p) == {q \in DOMAIN f : IsPrefix(p, q) /\ q # p}
Subtree(f, p) == {q \in DOMAIN f : IsPrefix(p, q)}
Rebase(q, from, to) == to \o SubSeq(q, Len(from) + 1, Len(q))

rename_mut(f, from, to) ==
  IF ~exists(f, from) THEN FsErr(f, "NotFound")
  ELSE FsOk([q \in (DOMAIN f \ Subtree(f, from)) \cup {to} |->
               IF q = to THEN f[from] ELSE f[q]])

rename(f, from, to) ==
  IF ~exists(f, from) THEN FsErr(f, "NotFound")
  ELSE IF ~NodeIsDir(f, Parent(to)) THEN FsErr(f, "NotFound")
  ELSE IF NodeExists(f, to) /\ (~NodeIsDir(f, to) \/ Below(f, to) # {})
    THEN FsErr(f, "DirectoryNotEmpty")
  ELSE LET moved == Subtree(f, from)
           kept == DOMAIN f \ (moved \cup {to})
           dest == {Rebase(q, from, to) : q \in moved}
       IN FsOk([q \in kept \cup dest |->
                  IF q \in dest THEN f[Rebase(q, to, from)] ELSE f[q]])

\* One unlink/rmdir of std::fs::remove_dir_all: a node with nothing below it.
Leaves(f, p) == {q \in Below(f, p) : Below(f, q) = {}}
remove_node(f, q) == [r \in DOMAIN f \ {q} |-> f[r]]

(* ------------------------------------------------------ args and inputs *)
target == <<"T">>
target_new_mut == target
target_new == <<"T.new">>
version_path(dir) == Append(dir, "version")

\* A zip entry: its name as components with a leading and a trailing slash
\* flag, its unix mode if it carries one, and its decompressed bytes.
Entry(n, a, s, m, d) == [name |-> n, abs |-> a, slash |-> s, mode |-> m, data |-> d]
EntryA == Entry(<<"a">>, FALSE, FALSE, Some(493), <<"A">>)
EntryD == Entry(<<"d">>, FALSE, TRUE, None, <<>>)
EntryPasswd == Entry(<<"..", "..", "etc", "passwd">>, FALSE, FALSE, None, <<"P">>)
EntryAbs == Entry(<<"T", "version">>, TRUE, FALSE, None, <<"X">>)
EntryVersion == Entry(<<"version">>, FALSE, FALSE, None, <<"V">>)

Entries == {EntryA, EntryD, EntryPasswd, EntryAbs, EntryVersion}
\* The archives the server may answer with: no entry twice.
Archives ==
  {a \in SeqsUpTo(Entries, MaxEntries) :
     \A m, n \in 1..Len(a) : m # n => a[m] # a[n]}

Rel(n, a) == [name |-> n, assets |-> a]
PageV2 == <<Rel(Some(NameRv2), <<AssetBTar, AssetBZip>>), Rel(Some(NameDv3), <<AssetCZip>>),
            Rel(Some(NameRv1Padded), <<AssetCZip>>)>>
PageV1 == <<Rel(Some(NameDv3), <<AssetCZip>>), Rel(Some(NameRv1Padded), <<AssetCZip>>)>>
PageNone == <<Rel(None, <<AssetBZip>>)>>
RunPages == {PageV2, PageV1, PageNone}

FsOf(S) == [q \in {e[1] : e \in S} |-> (CHOOSE e \in S : e[1] = q)[2]]
LiveAbsent == FsOf({})
LiveEmpty == FsOf({<<target, DirNode>>})
LiveV1 == FsOf({<<target, DirNode>>,
                <<version_path(target), FileNode(NameRv1, None)>>,
                <<Append(target, "o"), FileNode(<<"O">>, None)>>})
LiveVersionDir == FsOf({<<target, DirNode>>, <<version_path(target), DirNode>>})
InitialFs == {LiveAbsent, LiveEmpty, LiveV1, LiveVersionDir}

\* The live installation directory: everything at and below <target>.
Live(f) == [q \in Subtree(f, target) |-> f[q]]
Staging(f) == [q \in Subtree(f, target_new) |-> f[q]]

(* ------------------------------------------------- get_installed_version *)
get_installed_version_mut(r) ==
  IF r.ok THEN Ok(r.val) ELSE Ok(<<>>)

\* r is the outcome of fs::read_to_string("{target}/version").
get_installed_version(r) ==
  IF r.ok THEN Ok(r.val)
  ELSE IF r.err = "NotFound" THEN Ok(<<>>)
  ELSE Err(r.err)

\* What the read can return: what the filesystem holds, or an I/O failure.
ReadOutcomes(f) == {read_to_string(f, version_path(target)), Err("PermissionDenied")}

(* ------------------------------------------------------------ extraction *)
\* ZipFile::enclosed_name: None for an absolute name or one that steps above
\* its starting directory; otherwise the name as it is.
RECURSIVE depth_ok(_, _)
depth_ok(comps, depth) ==
  IF comps = <<>> THEN TRUE
  ELSE IF Head(comps) = ".."
    THEN depth > 0 /\ depth_ok(Tail(comps), depth - 1)
    ELSE depth_ok(Tail(comps), depth + 1)

enclosed_name_mut(file) == Some(file.name)

enclosed_name(file) ==
  IF file.abs THEN None
  ELSE IF depth_ok(file.name, 0) THEN Some(file.name)
  ELSE None

\* PathBuf::join: an absolute argument replaces the base.
join(base, rel, abs) == IF abs THEN rel ELSE base \o rel

FaultPoints == {"none", "copy", "perm"}

Body(ok, f, panic) == [ok |-> ok, fs |-> f, panic |-> panic]

\* Lines 110-112: apply the entry's unix mode; a failure panics.
ApplyMode(f, file, outpath, faultAt) ==
  IF file.mode = None THEN Body(TRUE, f, FALSE)
  ELSE IF faultAt = "perm" THEN Body(FALSE, f, TRUE)
  ELSE LET r == set_permissions(f, outpath, file.mode[1]) IN
    Body(r.ok, r.fs, ~r.ok)

\* One iteration of the extraction loop, lines 91-112.
ExtractBody(f, file, faultAt) ==
  LET en == enclosed_name(file) IN
    IF en = None THEN Body(TRUE, f, FALSE)
    ELSE LET outpath == join(target_new, en[1], file.abs) IN
      IF file.slash
        THEN LET r == create_dir_all(f, outpath) IN
          IF r.ok THEN ApplyMode(r.fs, file, outpath, faultAt)
          ELSE Body(FALSE, r.fs, FALSE)
        ELSE LET p == Parent(outpath)
                 mk == IF outpath # <<>> /\ ~exists(f, p)
                         THEN create_dir_all(f, p) ELSE FsOk(f)
             IN IF ~mk.ok THEN Body(FALSE, mk.fs, FALSE)
                ELSE LET c == write_file(mk.fs, outpath, <<>>) IN
                  IF ~c.ok THEN Body(FALSE, c.fs, FALSE)
                  ELSE IF faultAt = "copy" THEN Body(FALSE, c.fs, FALSE)
                  ELSE ApplyMode(write_file(c.fs, outpath, file.data).fs,
                                 file, outpath, faultAt)

(* ------------------------------------------------------------------ main *)
Terminal == {"UpToDate", "Swapped", "Failed"}

\* The `?` operator: an error ends the run.
Propagate_mut(ok, nxt) == nxt

Propagate(ok, nxt) == IF ok THEN nxt ELSE "Failed"

\* main's result: Ok(()) exits 0, Err exits 1, a panic exits 101.
ExitCode(p, panic) ==
  IF p = "Failed" THEN Some(IF panic THEN 101 ELSE 1)
  ELSE IF p \in {"UpToDate", "Swapped"} THEN Some(0)
  ELSE None

Goto(ok, nxt, panic) ==
  /\ pc' = Propagate(ok, nxt)
  /\ failedAt' = IF pc' = "Failed" THEN pc ELSE failedAt
  /\ exit' = ExitCode(pc', panic)

NeedsUpgrade_mut(installed, name) == TRUE

\* Line 74.
NeedsUpgrade(installed, name) == installed # name

Init ==
  /\ fs \in InitialFs
  /\ live0 = Live(fs)
  /\ prev_swapped = FALSE
  /\ page \in RunPages
  /\ suffix = Zip
  /\ pc = "Idle"
  /\ failedAt = "none"
  /\ fault = FALSE
  /\ probe = None
  /\ installed_version = None
  /\ latest_release = None
  /\ archive = <<>>
  /\ idx = 0
  /\ net = {}
  /\ exit = None

\* Line 72.
ProbeVersion ==
  /\ pc = "Idle"
  /\ \E r \in ReadOutcomes(fs) :
       LET v == get_installed_version(r) IN
         /\ probe' = Some(r)
         /\ fault' = (fault \/ r # read_to_string(fs, version_path(target)))
         /\ installed_version' = IF v.ok THEN Some(v.val) ELSE None
         /\ Goto(v.ok, "VersionChecked", FALSE)
  /\ UNCHANGED <<fs, live0, prev_swapped, page, suffix, latest_release, archive, idx,
                 net>>

\* Lines 73-81.
Resolve ==
  /\ pc = "VersionChecked"
  /\ net' = net \cup {"catalog"}
  /\ LET r == get_latest_release(page, suffix) IN
       /\ latest_release' = IF r.ok THEN Some(r.val) ELSE None
       /\ Goto(r.ok,
               IF r.ok /\ NeedsUpgrade(installed_version[1], r.val.name)
                 THEN "Downloading" ELSE "UpToDate",
               FALSE)
  /\ UNCHANGED <<fs, live0, prev_swapped, page, suffix, fault, probe,
                 installed_version, archive, idx>>

\* Lines 82-89: the server answers with some archive.
Download ==
  /\ pc = "Downloading"
  /\ net' = net \cup {"archive"}
  /\ \E ar \in Archives : archive' = ar
  /\ idx' = 1
  /\ Goto(TRUE, "Extracting", FALSE)
  /\ UNCHANGED <<fs, live0, prev_swapped, page, suffix, fault, probe,
                 installed_version, latest_release>>

\* Lines 90-113, one entry.
Extract ==
  /\ pc = "Extracting"
  /\ idx <= Len(archive)
  /\ \E fa \in FaultPoints :
       LET r == ExtractBody(fs, archive[idx], fa) IN
         /\ fs' = r.fs
         /\ fault' = (fault \/ fa # "none")
         /\ idx' = IF r.ok THEN idx + 1 ELSE idx
         /\ Goto(r.ok, "Extracting", r.panic)
  /\ UNCHANGED <<live0, prev_swapped, page, suffix, probe, installed_version,
                 latest_release, archive, net>>

\* Line 114: fs::write creates the file, then writes the name into it; a
\* failed write leaves the file empty.
Stamp ==
  /\ pc = "Extracting"
  /\ idx > Len(archive)
  /\ \E fa \in {"none", "write"} :
       LET c == write_file(fs, version_path(target_new), <<>>)
           r == IF c.ok /\ fa = "none"
                  THEN write_file(c.fs, version_path(target_new), latest_release[1].name)
                  ELSE FsErr(c.fs, "Failed")
       IN /\ fs' = r.fs
          /\ fault' = (fault \/ fa # "none")
          /\ Goto(r.ok, "Stamped", FALSE)
  /\ UNCHANGED <<live0, prev_swapped, page, suffix, probe, installed_version,
                 latest_release, archive, idx, net>>

\* Line 115, remove_dir_all: the path must exist.
BeginRemove ==
  /\ pc = "Stamped"
  /\ Goto(exists(fs, target), "Removing", FALSE)
  /\ UNCHANGED <<fs, live0, prev_swapped, page, suffix, fault, probe,
                 installed_version, latest_release, archive, idx, net>>

\* Line 115, remove_dir_all: unlink one node with nothing below it.
RemoveStep ==
  /\ pc = "Removing"
  /\ \E q \in Leaves(fs, target) : fs' = remove_node(fs, q)
  /\ UNCHANGED <<live0, prev_swapped, page, suffix, pc, failedAt, fault, probe,
                 installed_version, latest_release, archive, idx, net, exit>>

\* Line 115, remove_dir_all: rmdir of the emptied directory.
FinishRemove ==
  /\ pc = "Removing"
  /\ Below(fs, target) = {}
  /\ fs' = remove_node(fs, target)
  /\ Goto(TRUE, "Removed", FALSE)
  /\ UNCHANGED <<live0, prev_swapped, page, suffix, fault, probe, installed_version,
                 latest_release, archive, idx, net>>

\* Line 116.
Rename ==
  /\ pc = "Removed"
  /\ LET r == rename(fs, target_new, target) IN
       /\ fs' = r.fs
       /\ Goto(r.ok, "Swapped", FALSE)
  /\ UNCHANGED <<live0, prev_swapped, page, suffix, fault, probe, installed_version,
                 latest_release, archive, idx, net>>

\* The process is killed, or a network or disk operation fails, where the
\* failure leaves nothing behind on disk.
Interrupt ==
  /\ pc \notin Terminal
  /\ fault' = TRUE
  /\ Goto(FALSE, pc, FALSE)
  /\ UNCHANGED <<fs, live0, prev_swapped, page, suffix, probe, installed_version,
                 latest_release, archive, idx, net>>

\* The program is started again; the catalog may have changed meanwhile.
StartRun ==
  /\ pc \in Terminal
  /\ live0' = Live(fs)
  /\ page' \in RunPages
  /\ prev_swapped' = (pc = "Swapped" /\ page' = page)
  /\ pc' = "Idle"
  /\ failedAt' = "none"
  /\ fault' = FALSE
  /\ probe' = None
  /\ installed_version' = None
  /\ latest_release' = None
  /\ archive' = <<>>
  /\ idx' = 0
  /\ net' = {}
  /\ exit' = None
  /\ UNCHANGED <<fs, suffix>>

Next ==
  \/ ProbeVersion
  \/ Resolve
  \/ Download
  \/ Extract
  \/ Stamp
  \/ BeginRemove
  \/ RemoveStep
  \/ FinishRemove
  \/ Rename
  \/ Interrupt
  \/ StartRun

Spec == Init /\ [][Next]_vars

(* The resolver alone, on every catalog page within the bounds. *)
InitResolver ==
  /\ fs = LiveAbsent
  /\ live0 = Live(fs)
  /\ prev_swapped = FALSE
  /\ page \in AllPages
  /\ suffix \in Suffixes
  /\ pc = "VersionChecked"
  /\ failedAt = "none"
  /\ fault = FALSE
  /\ probe = Some(Err("NotFound"))
  /\ installed_version = Some(<<>>)
  /\ latest_release = None
  /\ archive = <<>>
  /\ idx = 0
  /\ net = {}
  /\ exit = None

NextResolver == Resolve

SpecResolver == InitResolver /\ [][NextResolver]_vars

(* ================================================================ claims *)

\* The (release, asset) positions of a page that qualify.
Qualifying(pg, sfx) ==
  {ka \in UNION {{<<k, j>> : j \in 1..Len(pg[k].assets)} : k \in 1..Len(pg)} :
     /\ pg[ka[1]].name # None
     /\ SubSeq(pg[ka[1]].name[1], 1, 7) = ReleasePrefix
     /\ LET n == pg[ka[1]].assets[ka[2]].name IN
          Len(n) >= Len(sfx) /\ \A c \in 1..Len(sfx) : n[Len(n) - Len(sfx) + c] = sfx[c]}

Before(x, y) == x[1] < y[1] \/ (x[1] = y[1] /\ x[2] <= y[2])

Resolved == pc \in {"UpToDate", "Downloading"} \/ (pc = "Failed" /\ failedAt = "VersionChecked")

\* C6: get_latest_release returns the first (release, asset) pair in catalog
\* order whose release name starts with "Release" and whose asset filename
\* ends with the suffix, with the trimmed name and that asset's URL; it fails
\* with "No Release Found" exactly when no pair qualifies.
C6_FirstMatch ==
  (Resolved /\ ~fault) =>
    LET q == Qualifying(page, suffix) IN
      IF q = {} THEN pc = "Failed" /\ latest_release = None
      ELSE LET first == CHOOSE x \in q : \A y \in q : Before(x, y)
               rel == page[first[1]]
           IN /\ pc # "Failed"
              /\ latest_release # None
              /\ latest_release[1].url = rel.assets[first[2]].browser_download_url
              /\ latest_release[1].name = trim(rel.name[1])
              /\ latest_release[1].name \in {NameRv1, NameRv2}

\* C6 witness: a later pair qualifies too, and an earlier release is skipped.
C6_Witness ==
  /\ pc = "Downloading"
  /\ Cardinality(Qualifying(page, suffix)) >= 2
  /\ \E x \in Qualifying(page, suffix) : x[1] > 1
  /\ \A x \in Qualifying(page, suffix) : x[1] > 1 \/ x[2] > 1


(* ------------------------------------------------- shared vocabulary *)
EarlyStages == {"Idle", "VersionChecked", "Downloading", "Extracting", "Stamped"}
WindowStages == {"Removing", "Removed"}

\* The run has not begun to remove the live directory.
BeforeRemoval ==
  pc \in EarlyStages \cup {"UpToDate"} \/ (pc = "Failed" /\ failedAt \in EarlyStages)

\* The run failed, or was interrupted, before the removal began.
FailedBeforeRemoval == pc = "Failed" /\ failedAt \in EarlyStages

\* remove_dir_all has begun and the rename has not succeeded.
InWindow == pc \in WindowStages \/ (pc = "Failed" /\ failedAt \in WindowStages)

\* What <dir>/version holds in a directory tree: "" when there is none.
VersionIn(tree, dir) ==
  IF version_path(dir) \in DOMAIN tree /\ tree[version_path(dir)].kind = "file"
    THEN tree[version_path(dir)].data
    ELSE <<>>

\* An entry name that is absolute or climbs above its starting directory.
Unsafe(e) ==
  \/ e.abs
  \/ \E k \in 1..Len(e.name) :
       Cardinality({m \in 1..k : e.name[m] = ".."})
         > Cardinality({m \in 1..k : e.name[m] # ".."})

\* The nodes of f2 that f1 does not hold, or holds differently, and the nodes gone.
Touched(f1, f2) ==
  {q \in DOMAIN f2 : q \notin DOMAIN f1 \/ f1[q] # f2[q]} \cup (DOMAIN f1 \ DOMAIN f2)

\* C1: a run that fails or is interrupted before the removal of the live
\* directory begins leaves <target> and <target>/version exactly as they were
\* when the run started and never reaches Swapped; the next run starts from
\* the same live directory and reads the same installed version from it.
C1_LiveUntouchedBeforeRemoval ==
  /\ [](FailedBeforeRemoval => Live(fs) = live0)
  /\ [](installed_version # None => installed_version = Some(VersionIn(live0, target)))
  /\ [][FailedBeforeRemoval =>
          /\ pc' \in {"Failed", "Idle"}
          /\ fs' = fs
          /\ pc' = "Idle" => live0' = live0]_vars

\* C1 witness: a run failed during extraction with staging partly written,
\* beside a live directory that has a version file.
C1_Witness ==
  /\ pc = "Failed"
  /\ failedAt = "Extracting"
  /\ Below(fs, target_new) # {}
  /\ version_path(target) \in DOMAIN fs
  /\ installed_version = Some(NameRv1)

\* C5: when the installed version equals the resolved release name the run
\* ends UpToDate with exit status 0, downloads no archive, and no step of it
\* changes anything on disk: <target>, <target>/version and <target>.new stay
\* as they were.
C5_NoOpPath ==
  /\ []((installed_version # None /\ latest_release # None
          /\ installed_version[1] = latest_release[1].name)
        => /\ pc = "UpToDate"
           /\ exit = Some(0)
           /\ "archive" \notin net
           /\ archive = <<>>
           /\ Live(fs) = live0)
  /\ [][pc' \in {"VersionChecked", "UpToDate"} => fs' = fs]_vars

\* C5 witness: a no-op run beside a staging directory left by an earlier run.
C5_Witness ==
  /\ pc = "UpToDate"
  /\ Below(fs, target_new) # {}
  /\ installed_version = Some(NameRv1)

\* C8: when the read of <target>/version fails for a reason other than the
\* file being absent, the run ends Failed with a non-zero exit before the
\* catalog is queried: no installed version, no release, no network request,
\* and nothing on disk changes.
C8_ReadErrorIsFatal ==
  /\ []((probe # None /\ ~probe[1].ok /\ probe[1].err # "NotFound")
        => /\ pc = "Failed"
           /\ failedAt = "Idle"
           /\ exit \in {Some(1), Some(101)}
           /\ installed_version = None
           /\ latest_release = None
           /\ net = {}
           /\ Live(fs) = live0)
  /\ [][pc = "Idle" => fs' = fs]_vars

\* C8 witness: <target>/version is a directory and the run failed on it.
C8_Witness ==
  /\ pc = "Failed"
  /\ probe = Some(Err("IsADirectory"))
  /\ ~fault


\* C2: when <target>/version is absent, also because <target> itself is
\* absent, a run that meets no network or disk fault and has stamped its
\* staging directory goes on to swap it into place: it does not fail.
C2_MissingMarkerInstalls ==
  (/\ probe = Some(Err("NotFound"))
   /\ installed_version = Some(<<>>)
   /\ ~fault
   /\ pc = "Failed")
  => failedAt \in {"VersionChecked", "Extracting"}

\* The archive's entries that are extracted, as paths below a directory.
SafePaths(ar, dir) ==
  {dir \o ar[m].name : m \in {n \in 1..Len(ar) : ~Unsafe(ar[n])}}

\* <target> holds the complete new installation: the stamped version file
\* and every safe entry of the archive, files with their bytes.
CompleteNew ==
  /\ target \in DOMAIN fs
  /\ latest_release # None
  /\ read_to_string(fs, version_path(target)) = Ok(latest_release[1].name)
  /\ \A m \in 1..Len(archive) :
       LET e == archive[m]
           q == target \o e.name
       IN ~Unsafe(e) =>
            /\ q \in DOMAIN fs
            /\ fs[q].kind = (IF e.slash THEN "dir" ELSE "file")
            /\ (~e.slash /\ q # version_path(target)) => fs[q].data = e.data

\* C3 as claimed: in every state <target> is the complete old installation or
\* the complete new one.
C3_OldOrNew == Live(fs) = live0 \/ (pc = "Swapped" /\ CompleteNew)

\* C3 amended: <target> is exactly the old installation until remove_dir_all
\* begins and the complete new installation once the rename has succeeded;
\* from the start of remove_dir_all until the rename succeeds, and after a
\* failure in that window, it is partially removed or missing and holds
\* nothing but entries of the old installation.  It is never partially written.
C3_OldWindowOrNew ==
  /\ BeforeRemoval => Live(fs) = live0
  /\ InWindow =>
       /\ DOMAIN Live(fs) \subseteq DOMAIN live0
       /\ \A q \in DOMAIN Live(fs) : fs[q] = live0[q]
       /\ target \notin DOMAIN fs => Live(fs) = <<>>
  /\ pc = "Swapped" => CompleteNew
  /\ BeforeRemoval \/ InWindow \/ pc = "Swapped"

\* C3 witness: the old installation is partly removed, its version file gone
\* and another file still there.
C3_Witness ==
  /\ pc = "Removing"
  /\ version_path(target) \in DOMAIN live0
  /\ version_path(target) \notin DOMAIN fs
  /\ Below(fs, target) # {}

\* C4: after a run that reaches Swapped for a release resolved with name N,
\* <target>/version holds exactly N, the release name without surrounding
\* whitespace, whatever the archive held; and the following run against the
\* same catalog, unless a fault stops it, reads N and ends UpToDate.
C4_MarkerRoundTrip ==
  /\ pc = "Swapped" =>
       /\ read_to_string(fs, version_path(target)) = Ok(latest_release[1].name)
       /\ latest_release[1].name \in {NameRv1, NameRv2}
  /\ (prev_swapped /\ ~fault /\ pc \notin {"Idle", "VersionChecked"}) =>
       /\ pc = "UpToDate"
       /\ installed_version = Some(latest_release[1].name)
       /\ Live(fs) = live0

\* C4 witness: the run after a swap, against a catalog whose release name
\* carries trailing whitespace, took the no-op path.
C4_Witness ==
  /\ prev_swapped
  /\ pc = "UpToDate"
  /\ page = PageV1
  /\ installed_version = Some(NameRv1)

\* C7: an entry whose name does not resolve inside the staging directory is
\* skipped: the step changes nothing on disk, does not fail the run and moves
\* on to the next entry; every safe entry before the current position has
\* been extracted; and whatever extraction creates or changes lies at or
\* below <target>.new.
C7_TraversalSkipped ==
  /\ [][(pc = "Extracting" /\ idx <= Len(archive) /\ Unsafe(archive[idx]) /\ ~fault')
          => (pc' = "Extracting" /\ idx' = idx + 1 /\ fs' = fs)]_vars
  /\ [](pc = "Extracting" =>
          \A m \in 1..(idx - 1) :
            ~Unsafe(archive[m]) => (target_new \o archive[m].name) \in DOMAIN fs)
  /\ [][pc = "Extracting" =>
          \A q \in Touched(fs, fs') : IsPrefix(<<"T.new">>, q)]_vars

\* C7 witness: "../../etc/passwd" was skipped and the entry after it extracted.
C7_Witness ==
  /\ pc = "Extracting"
  /\ idx = 3
  /\ archive[1] = EntryPasswd
  /\ ~Unsafe(archive[2])
  /\ (target_new \o archive[2].name) \in DOMAIN fs

\* C9: the directory a run renames into <target> holds the safe entries of
\* that run's archive and the version file, and nothing else.
C9_StagingFresh ==
  pc = "Swapped" =>
    DOMAIN Live(fs) \subseteq
      {target, version_path(target)} \cup SafePaths(archive, target)

\* The states of the per-run state machine; remove_dir_all runs in Stamped.
Phase(p) == IF p \in WindowStages THEN "Stamped" ELSE p

Transitions ==
  {<<"Idle", "VersionChecked">>, <<"VersionChecked", "UpToDate">>,
   <<"VersionChecked", "Downloading">>, <<"Downloading", "Extracting">>,
   <<"Extracting", "Stamped">>, <<"Stamped", "Swapped">>}
  \cup {<<p, "Failed">> : p \in EarlyStages}
  \cup {<<p, "Idle">> : p \in Terminal}

\* C10: a run follows Idle -> VersionChecked -> {UpToDate | Downloading ->
\* Extracting -> Stamped -> Swapped}, any step may instead end it in Failed,
\* and nothing follows Failed; once Stamped every entry has been processed
\* and <target>.new/version holds the release name; the live directory
\* differs from what the run found only once the removal has begun; the
\* rename happens only after the removal has left no <target>, and moves
\* everything in <target>.new to <target>; and the exit
\* status is 0 exactly in UpToDate and Swapped, non-zero exactly in Failed.
C10_StateMachine ==
  /\ [][Phase(pc') # Phase(pc) => <<Phase(pc), Phase(pc')>> \in Transitions]_vars
  /\ [][(pc \in Terminal) => fs' = fs]_vars
  /\ [](pc \in {"Stamped", "Removing", "Removed"} =>
          /\ idx = Len(archive) + 1
          /\ read_to_string(fs, version_path(target_new)) = Ok(latest_release[1].name))
  /\ [](pc \notin {"Idle", "Failed"} => installed_version # None)
  /\ [](pc \notin {"Idle", "VersionChecked", "Failed"} => latest_release # None)
  /\ [](pc \in {"Downloading", "Extracting", "Stamped", "Removing", "Removed", "Swapped"} =>
          installed_version[1] # latest_release[1].name)
  /\ [](Live(fs) # live0 => (InWindow \/ pc = "Swapped"))
  /\ [][(pc' = "Swapped" /\ pc # "Swapped") =>
          /\ pc = "Removed"
          /\ target \notin DOMAIN fs
          /\ DOMAIN Live(fs') = {Rebase(x, target_new, target) : x \in DOMAIN Staging(fs)}
          /\ \A x \in DOMAIN Staging(fs) : fs'[Rebase(x, target_new, target)] = fs[x]
          /\ Staging(fs') = <<>>]_vars
  /\ [](exit = Some(0) <=> pc \in {"UpToDate", "Swapped"})
  /\ [](exit \in {Some(1), Some(101)} <=> pc = "Failed")
  /\ [](exit = None <=> pc \notin Terminal)

\* C10 witness: a run went through every state and swapped a two-entry archive.
C10_Witness ==
  /\ pc = "Swapped"
  /\ exit = Some(0)
  /\ Len(archive) >= 2
  /\ live0 # <<>>

====
